---- MODULE Spec2Model ----
(***************************************************************************)
(* PDF2Muse: the MusicXML merge (join_musicxml_files), the MuseScore        *)
(* projection (convert_to_musescore_format) and the pipeline               *)
(* PDF2MusePipeline.run that drives them over a temporary workspace.        *)
(***************************************************************************)
EXTENDS Integers, Sequences, FiniteSets, TLC

(* ------------------------------ bounds --------------------------------- *)
MaxPages == 3
MaxParts == 2
MaxMeasures == 2

(* f"page_{i:03d}": minimum width of the zero-padded page index *)
PadWidth == 3

Pages == 0 .. (MaxPages - 1)

(* ----------------------------- documents ------------------------------- *)
(* A file of the musicxml directory.  exists: the file is there; ok: it     *)
(* parses; partlist: the <part-list> children of the root (none or one),    *)
(* each the sequence of its declarations; parts: the <part> children of the *)
(* root, each with its id and its <measure> children.                       *)
NoFile == [exists |-> FALSE, ok |-> FALSE, partlist |-> <<>>, parts |-> <<>>]

Malformed == [exists |-> TRUE, ok |-> FALSE, partlist |-> <<>>, parts |-> <<>>]

(* The transcription of page p with np parts of nm measures each; measures  *)
(* carry their page, part and number (numbered from 1 on every page).       *)
PageDoc(p, hasPL, np, nm) ==
    [exists |-> TRUE, ok |-> TRUE,
     partlist |-> IF hasPL THEN << [k \in 1 .. np |-> k] >> ELSE <<>>,
     parts |-> [k \in 1 .. np |->
                  [id |-> k,
                   measures |-> [n \in 1 .. nm |-> <<p, k, n>>]]]]

(* The shapes a page file may have: a malformed file, a document with      *)
(* 0..MaxParts declared parts of 1..MaxMeasures measures, or a document     *)
(* lacking its part-list.                                                   *)
Shapes ==
    {[kind |-> "bad", hasPL |-> FALSE, np |-> 0, nm |-> 0]}
      \cup {[kind |-> "doc", hasPL |-> TRUE, np |-> np, nm |-> nm] :
                np \in 0 .. MaxParts, nm \in 1 .. MaxMeasures}
      \cup {[kind |-> "doc", hasPL |-> FALSE, np |-> 1, nm |-> 1]}

NoShape == [kind |-> "none", hasPL |-> FALSE, np |-> 0, nm |-> 0]

DocOf(p, s) ==
    IF s.kind = "none" THEN NoFile
    ELSE IF s.kind = "bad" THEN Malformed
    ELSE PageDoc(p, s.hasPL, s.np, s.nm)

EmptyDir == [p \in Pages |-> NoFile]

(* ------------------------------ file names ----------------------------- *)
RECURSIVE Digits(_)
Digits(n) == IF n < 10 THEN <<n>> ELSE Digits(n \div 10) \o <<n % 10>>

RECURSIVE ZeroPad(_, _)
ZeroPad(s, w) == IF Len(s) >= w THEN s ELSE ZeroPad(<<0>> \o s, w)

(* '.' sorts below every digit *)
Dot == -1

(* the part of f"page_{i:03d}.musicxml" after the common prefix "page_" *)
PageName(i) == ZeroPad(Digits(i), PadWidth) \o <<Dot>>

RECURSIVE LexLess(_, _)
LexLess(a, b) ==
    IF b = <<>> THEN FALSE
    ELSE IF a = <<>> THEN TRUE
    ELSE IF Head(a) /= Head(b) THEN Head(a) < Head(b)
    ELSE LexLess(Tail(a), Tail(b))

RECURSIVE SortedNames(_)
SortedNames(S) ==
    IF S = {} THEN <<>>
    ELSE LET m == CHOOSE x \in S :
                    \A y \in S \ {x} : LexLess(PageName(x), PageName(y))
         IN <<m>> \o SortedNames(S \ {m})

(* sorted(input_path.glob("*.musicxml")) *)
GlobSorted(dir) == SortedNames({p \in Pages : dir[p].exists})

(* --------------------------- join_musicxml_files ----------------------- *)
(* for i, new_part in enumerate(new_parts): measures of new_part are        *)
(* appended to parts[i] when it exists, else new_part becomes a new part.   *)
RECURSIVE AppendPartsDropLast(_, _, _)
AppendPartsDropLast(parts, new_parts, i) ==
    IF i >= Len(new_parts) THEN parts
    ELSE IF i <= Len(parts)
         THEN AppendPartsDropLast(
                [parts EXCEPT ![i].measures = @ \o new_parts[i].measures],
                new_parts, i + 1)
         ELSE AppendPartsDropLast(Append(parts, new_parts[i]), new_parts, i + 1)

RECURSIVE AppendParts(_, _, _)
AppendParts(parts, new_parts, i) ==
    IF i > Len(new_parts) THEN parts
    ELSE IF i <= Len(parts)
         THEN AppendParts(
                [parts EXCEPT ![i].measures = @ \o new_parts[i].measures],
                new_parts, i + 1)
         ELSE AppendParts(Append(parts, new_parts[i]), new_parts, i + 1)

(* for musicxml_file in musicxml_files[1:]: a file that does not parse is   *)
(* skipped; the root keeps the part-list of the first file.                 *)
RECURSIVE MergeRemaining(_, _, _, _)
MergeRemaining(root, dir, files, j) ==
    IF j > Len(files) THEN root
    ELSE IF ~dir[files[j]].ok
         THEN MergeRemaining(root, dir, files, j + 1)
         ELSE MergeRemaining(
                [root EXCEPT !.parts = AppendParts(@, dir[files[j]].parts, 1)],
                dir, files, j + 1)

(* join_musicxml_files(input_dir, output_file): out is the file at         *)
(* output_file before the call, writable whether it can be opened for       *)
(* writing.  raised is the exception that leaves the call ("none": it       *)
(* returns), out the file at output_file afterwards.                        *)
join_musicxml_files(dir, out, writable) ==
    LET files == GlobSorted(dir) IN
    IF files = <<>>
    THEN [raised |-> "none", out |-> out]
    ELSE IF ~dir[files[1]].ok
    THEN [raised |-> "ParseError", out |-> out]
    ELSE IF ~writable
    THEN [raised |-> "OSError", out |-> out]
    ELSE [raised |-> "none",
          out |-> MergeRemaining(dir[files[1]], dir, files, 2)]

(* ----------------------- convert_to_musescore_format ------------------- *)
NoMscx ==
    [exists |-> FALSE, root |-> "", version |-> "", metaTags |-> <<>>,
     partlist |-> <<>>, parts |-> <<>>]

(* museScore/Score with the metaTag, the first part-list if there is one,   *)
(* and every part of the root.                                              *)
MuseScoreOfFirstPart(root) ==
    [exists |-> TRUE, root |-> "museScore", version |-> "4.20",
     metaTags |-> << [name |-> "source", text |-> "PDF2Muse"] >>,
     partlist |-> IF root.partlist /= <<>> THEN << Head(root.partlist) >> ELSE <<>>,
     parts |-> IF root.parts /= <<>> THEN << Head(root.parts) >> ELSE <<>>]

MuseScoreOf(root) ==
    [exists |-> TRUE, root |-> "museScore", version |-> "4.20",
     metaTags |-> << [name |-> "source", text |-> "PDF2Muse"] >>,
     partlist |-> IF root.partlist /= <<>> THEN << Head(root.partlist) >> ELSE <<>>,
     parts |-> root.parts]

(* convert_to_musescore_format(input_file, output_file): input is the      *)
(* file at input_file, out the file at output_file before the call.         *)
convert_to_musescore_format(input, out, writable) ==
    IF ~input.exists
    THEN [raised |-> "FileNotFoundError", out |-> out]
    ELSE IF ~input.ok
    THEN [raised |-> "RuntimeError: Failed to parse MusicXML", out |-> out]
    ELSE IF ~writable
    THEN [raised |-> "RuntimeError: Conversion failed", out |-> out]
    ELSE [raised |-> "none", out |-> MuseScoreOf(input)]

(* ------------------------------- state --------------------------------- *)
VARIABLES
    pc,             \* where the run (or the caller of the library) is
    err,            \* the exception that ended it, "none" otherwise
    failed_in,      \* the stage the exception was raised in
    workspace,      \* the temporary directory exists
    image_dir,      \* pages with a PNG in temp/images
    musicxml_dir,   \* temp/musicxml: page name -> file
    rendered,       \* pdf_to_png has returned
    png_files,      \* what pdf_to_png returned
    page,           \* pages the transcribing loop has processed
    oemer,          \* what the transcriber did for each page
    musicxml_files, \* the documents run recorded as produced
    out_xml,        \* output_dir/combined.musicxml
    out_mscx,       \* output_dir/combined.mscx
    transcribed,    \* the file the transcriber wrote for each page
    skipped,        \* the files the join reported as skipped (parse error)
    png_names,      \* the page names generated so far, in page order
    inv,            \* the convert_pdf invocations of the web interface
    download,       \* the file at gettempdir()/pdf2muse_combined.mscx
    ckpt,           \* the checkpoint files on disk
    ckpt_ret,       \* how the last checkpoint call ended
    calls           \* checkpoint calls made so far

vars == <<pc, err, failed_in, workspace, image_dir, musicxml_dir, rendered,
          png_files, page, oemer, musicxml_files, out_xml, out_mscx,
          transcribed, skipped, png_names, inv, download, ckpt, ckpt_ret, calls>>

pipeline_vars == <<failed_in, workspace, image_dir, rendered, png_files, page,
                   oemer, musicxml_files, transcribed>>

(* the state of one run of the pipeline and of the library calls *)
run_vars == <<pc, err, failed_in, workspace, image_dir, musicxml_dir, rendered,
              png_files, page, oemer, musicxml_files, out_xml, out_mscx,
              transcribed, skipped>>

naming_vars == <<png_names>>

ui_vars == <<inv, download>>

ckpt_vars == <<ckpt, ckpt_ret, calls>>

(* ------------- what the other parts of the program start from ---------- *)
MaxInvocations == 3

Invocations == 1 .. MaxInvocations

(* checkpoint_files, in the order download_checkpoints goes through them *)
checkpoint_files ==
    <<"1st_model.onnx", "1st_weights.h5", "2nd_model.onnx", "2nd_weights.h5">>

CheckpointNames == {checkpoint_files[i] : i \in 1 .. Len(checkpoint_files)}

NamingIdle == png_names = <<>>

UiIdle ==
    /\ inv = [w \in Invocations |->
                [pc |-> "idle", output |-> NoMscx, returned |-> NoMscx]]
    /\ download = NoMscx

CkptIdle ==
    /\ ckpt = [f \in CheckpointNames |-> "absent"]
    /\ ckpt_ret = "none"
    /\ calls = 0

RunIdle ==
    /\ pc = "Start"
    /\ err = "none"
    /\ failed_in = "none"
    /\ workspace = FALSE
    /\ image_dir = {}
    /\ musicxml_dir = EmptyDir
    /\ rendered = FALSE
    /\ png_files = <<>>
    /\ page = 0
    /\ oemer = [p \in Pages |-> "pending"]
    /\ musicxml_files = <<>>
    /\ out_xml = NoFile
    /\ out_mscx = NoMscx
    /\ transcribed = EmptyDir
    /\ skipped = {}

(* the files the join skips with "Skipped ... (parse error)" *)
JoinSkipped(dir) ==
    LET files == GlobSorted(dir) IN
    IF files = <<>> \/ ~dir[files[1]].ok THEN {}
    ELSE {files[j] : j \in {i \in 2 .. Len(files) : ~dir[files[i]].ok}}

(* ---------------- the two library functions, called directly ----------- *)
(* Any directory of at most MaxPages page files, an empty output directory. *)
MergeInit ==
    /\ musicxml_dir \in
          {[p \in Pages |-> DocOf(p, s[p])] :
              s \in [Pages -> Shapes \cup {NoShape}]}
    /\ pc = "CallJoin"
    /\ err = "none"
    /\ failed_in = "none"
    /\ workspace = FALSE
    /\ image_dir = {}
    /\ rendered = FALSE
    /\ png_files = <<>>
    /\ page = 0
    /\ oemer = [p \in Pages |-> "pending"]
    /\ musicxml_files = <<>>
    /\ out_xml = NoFile
    /\ out_mscx = NoMscx
    /\ transcribed = EmptyDir
    /\ skipped = {}
    /\ NamingIdle /\ UiIdle /\ CkptIdle

JoinCall ==
    /\ pc = "CallJoin"
    /\ \E writable \in BOOLEAN :
         LET r == join_musicxml_files(musicxml_dir, out_xml, writable) IN
         /\ out_xml' = r.out
         /\ err' = r.raised
         /\ pc' = IF r.raised = "none" THEN "JoinReturned" ELSE "JoinRaised"
    /\ skipped' = JoinSkipped(musicxml_dir)
    /\ UNCHANGED <<musicxml_dir, out_mscx>>
    /\ UNCHANGED pipeline_vars
    /\ UNCHANGED <<naming_vars, ui_vars, ckpt_vars>>

ConvertCall ==
    /\ pc = "JoinReturned"
    /\ \E writable \in BOOLEAN :
         LET r == convert_to_musescore_format(out_xml, out_mscx, writable) IN
         /\ out_mscx' = r.out
         /\ err' = r.raised
         /\ pc' = IF r.raised = "none" THEN "ConvertReturned" ELSE "ConvertRaised"
    /\ UNCHANGED <<musicxml_dir, out_xml, skipped>>
    /\ UNCHANGED pipeline_vars
    /\ UNCHANGED <<naming_vars, ui_vars, ckpt_vars>>

MergeNext == JoinCall \/ ConvertCall

MergeSpec == MergeInit /\ [][MergeNext]_vars

(* -------------------------- PDF2MusePipeline.run ----------------------- *)
Init ==
    /\ pc = "Start"
    /\ err = "none"
    /\ failed_in = "none"
    /\ workspace = FALSE
    /\ image_dir = {}
    /\ musicxml_dir = EmptyDir
    /\ rendered = FALSE
    /\ png_files = <<>>
    /\ page = 0
    /\ oemer = [p \in Pages |-> "pending"]
    /\ musicxml_files = <<>>
    /\ out_xml = NoFile
    /\ out_mscx = NoMscx
    /\ transcribed = EmptyDir
    /\ skipped = {}
    /\ NamingIdle /\ UiIdle /\ CkptIdle

(* leaving "with tempfile.TemporaryDirectory()": the directory and all it   *)
(* holds are removed                                                        *)
ExitWorkspaceLeaks == UNCHANGED <<workspace, image_dir, musicxml_dir>>

ExitWorkspace ==
    /\ workspace' = FALSE
    /\ image_dir' = {}
    /\ musicxml_dir' = EmptyDir

(* an exception raised inside the with block leaves run through it *)
Raise(stage, e) ==
    /\ pc' = "Failed"
    /\ err' = e
    /\ failed_in' = stage
    /\ ExitWorkspace

(* ensure_checkpoints(), then the temporary directory and its two           *)
(* subdirectories are created                                               *)
Start ==
    /\ pc = "Start"
    /\ \E checkpoints \in BOOLEAN :
         IF checkpoints
         THEN /\ workspace' = TRUE
              /\ pc' = "Rendering"
              /\ UNCHANGED <<err, failed_in>>
         ELSE /\ pc' = "Failed"
              /\ err' = "RequestException"
              /\ failed_in' = "Start"
              /\ UNCHANGED workspace
    /\ UNCHANGED <<image_dir, musicxml_dir, rendered, png_files, page, oemer,
                   musicxml_files, out_xml, out_mscx, transcribed, skipped>>
    /\ UNCHANGED <<naming_vars, ui_vars, ckpt_vars>>

(* pdf_to_png: convert_from_path raises, or yields n >= 0 images, saved as  *)
(* page_000.png, page_001.png, ...                                          *)
Render ==
    /\ pc = "Rendering"
    /\ \/ /\ Raise("Rendering", "RuntimeError: Failed to convert PDF to images")
          /\ UNCHANGED <<rendered, png_files>>
       \/ \E n \in 0 .. MaxPages :
             /\ image_dir' = 0 .. (n - 1)
             /\ png_files' = [i \in 1 .. n |-> i - 1]
             /\ rendered' = TRUE
             /\ pc' = "Transcribing"
             /\ UNCHANGED <<err, failed_in, workspace, musicxml_dir>>
    /\ UNCHANGED <<page, oemer, musicxml_files, out_xml, out_mscx, transcribed,
                   skipped>>
    /\ UNCHANGED <<naming_vars, ui_vars, ckpt_vars>>

(* One turn of the loop over png_files: process_image_with_oemer on the     *)
(* next page.  The transcriber exits non-zero (or the call raises), or      *)
(* exits 0 having written <stem>.musicxml in the directory or nothing.      *)
(* After exit 0 the function takes the last file of an unordered listing of *)
(* the directory, renames it to <stem>.musicxml when it has another name,   *)
(* and returns that path; with no file in the directory it returns None.    *)
TranscribePage ==
    /\ pc = "Transcribing"
    /\ page < Len(png_files)
    /\ LET p == png_files[page + 1] IN
       \/ /\ oemer' = [oemer EXCEPT ![p] = "fail"]
          /\ UNCHANGED <<musicxml_dir, musicxml_files, transcribed>>
       \/ \E s \in Shapes \cup {NoShape} :
            LET written == IF s = NoShape THEN musicxml_dir
                           ELSE [musicxml_dir EXCEPT ![p] = DocOf(p, s)]
                listing == {q \in Pages : written[q].exists}
            IN /\ oemer' = [oemer EXCEPT ![p] = IF s = NoShape THEN "nodoc" ELSE "ok"]
               /\ transcribed' = [transcribed EXCEPT ![p] = DocOf(p, s)]
               /\ IF listing = {}
                  THEN /\ musicxml_dir' = written
                       /\ UNCHANGED musicxml_files
                  ELSE /\ \E actual_file \in listing :
                            musicxml_dir' =
                              IF actual_file /= p
                              THEN [written EXCEPT ![p] = written[actual_file],
                                                   ![actual_file] = NoFile]
                              ELSE written
                       /\ musicxml_files' = Append(musicxml_files, p)
    /\ page' = page + 1
    /\ UNCHANGED <<pc, err, failed_in, workspace, image_dir, rendered, png_files,
                   out_xml, out_mscx, skipped>>
    /\ UNCHANGED <<naming_vars, ui_vars, ckpt_vars>>

(* after the loop: "if not musicxml_files: raise RuntimeError(...)" *)
EndTranscribing ==
    /\ pc = "Transcribing"
    /\ page = Len(png_files)
    /\ IF musicxml_files = <<>>
       THEN Raise("Transcribing", "RuntimeError: No MusicXML files were generated")
       ELSE /\ pc' = "Merging"
            /\ UNCHANGED <<err, failed_in, workspace, image_dir, musicxml_dir>>
    /\ UNCHANGED <<rendered, png_files, page, oemer, musicxml_files, out_xml,
                   out_mscx, transcribed, skipped>>
    /\ UNCHANGED <<naming_vars, ui_vars, ckpt_vars>>

(* Step 3: join_musicxml_files(musicxml_dir, output_dir/combined.musicxml) *)
Merge ==
    /\ pc = "Merging"
    /\ \E writable \in BOOLEAN :
         LET r == join_musicxml_files(musicxml_dir, out_xml, writable) IN
         IF r.raised /= "none"
         THEN /\ Raise("Merging", r.raised)
              /\ UNCHANGED out_xml
         ELSE /\ out_xml' = r.out
              /\ pc' = "Projecting"
              /\ UNCHANGED <<err, failed_in, workspace, image_dir, musicxml_dir>>
    /\ skipped' = JoinSkipped(musicxml_dir)
    /\ UNCHANGED <<rendered, png_files, page, oemer, musicxml_files, out_mscx,
                   transcribed>>
    /\ UNCHANGED <<naming_vars, ui_vars, ckpt_vars>>

(* Step 4: convert_to_musescore_format(combined.musicxml, combined.mscx),   *)
(* then the with block is left and run returns                              *)
Project ==
    /\ pc = "Projecting"
    /\ \E writable \in BOOLEAN :
         LET r == convert_to_musescore_format(out_xml, out_mscx, writable) IN
         IF r.raised /= "none"
         THEN /\ Raise("Projecting", r.raised)
              /\ UNCHANGED out_mscx
         ELSE /\ out_mscx' = r.out
              /\ pc' = "Done"
              /\ ExitWorkspace
              /\ UNCHANGED <<err, failed_in>>
    /\ UNCHANGED <<rendered, png_files, page, oemer, musicxml_files, out_xml,
                   transcribed, skipped>>
    /\ UNCHANGED <<naming_vars, ui_vars, ckpt_vars>>

Next == Start \/ Render \/ TranscribePage \/ EndTranscribing \/ Merge \/ Project

Spec == Init /\ [][Next]_vars

(* ----------------------- the names of the pages ------------------------ *)
MaxRendered == 1001

NamingInit == RunIdle /\ NamingIdle /\ UiIdle /\ CkptIdle

(* one turn of "for i, image in enumerate(images)": the next page is saved  *)
(* as page_{i:03d}.png, and its document will be page_{i:03d}.musicxml      *)
NamePage ==
    /\ Len(png_names) < MaxRendered
    /\ png_names' = Append(png_names, PageName(Len(png_names)))
    /\ UNCHANGED <<run_vars, ui_vars, ckpt_vars>>

NamingNext == NamePage

NamingSpec == NamingInit /\ [][NamingNext]_vars

(* ------------------ convert_pdf of the web interface ------------------- *)
(* The projected score of the document uploaded to invocation w: what       *)
(* pipeline.run leaves as combined.mscx in the invocation's own output      *)
(* directory when it succeeds.                                              *)
OwnScore(w) == MuseScoreOf(PageDoc(w, TRUE, 1, 1))

UiInit == RunIdle /\ NamingIdle /\ UiIdle /\ CkptIdle

(* "with tempfile.TemporaryDirectory()", output_dir.mkdir(), pipeline.run() *)
(* in the invocation's own directories: it returns the path of its          *)
(* combined.mscx, or raises and convert_pdf returns the error message       *)
RunPipeline(w) ==
    /\ inv[w].pc = "idle"
    /\ \/ inv' = [inv EXCEPT ![w].pc = "ran", ![w].output = OwnScore(w)]
       \/ inv' = [inv EXCEPT ![w].pc = "failed"]
    /\ UNCHANGED download
    /\ UNCHANGED <<run_vars, naming_vars, ckpt_vars>>

(* shutil.copy(musescore_file, gettempdir()/"pdf2muse_combined.mscx") *)
CopyOutput(w) ==
    /\ inv[w].pc = "ran"
    /\ download' = inv[w].output
    /\ inv' = [inv EXCEPT ![w].pc = "copied"]
    /\ UNCHANGED <<run_vars, naming_vars, ckpt_vars>>

(* return (message, str(output_file)): the own directories are removed and  *)
(* the caller is handed the file at the shared path                         *)
ReturnFile(w) ==
    /\ inv[w].pc = "copied"
    /\ inv' = [inv EXCEPT ![w].pc = "returned", ![w].output = NoMscx,
                          ![w].returned = download]
    /\ UNCHANGED download
    /\ UNCHANGED <<run_vars, naming_vars, ckpt_vars>>

UiNext == \E w \in Invocations : RunPipeline(w) \/ CopyOutput(w) \/ ReturnFile(w)

UiSpec == UiInit /\ [][UiNext]_vars

(* --------------------------- oemer checkpoints ------------------------- *)
MaxCalls == 4

(* What a fetch of one file may do: "ok" writes the whole file; "refused"   *)
(* raises at requests.get / raise_for_status, before the file is opened;    *)
(* "cut" raises while the body is read, after open(file_path, "wb").        *)
Fetches == {"ok", "refused", "cut"}

(* the loop of download_checkpoints from the i-th file on; net[f] is what a *)
(* fetch of f does.  A file that exists is skipped unless force.            *)
RECURSIVE DownloadFrom(_, _, _, _)
DownloadFrom(files, force, net, i) ==
    IF i > Len(checkpoint_files) THEN [files |-> files, raised |-> FALSE]
    ELSE LET f == checkpoint_files[i] IN
         IF files[f] /= "absent" /\ ~force
         THEN DownloadFrom(files, force, net, i + 1)
         ELSE IF net[f] = "refused"
         THEN [files |-> files, raised |-> TRUE]
         ELSE IF net[f] = "cut"
         THEN [files |-> [files EXCEPT ![f] = "partial"], raised |-> TRUE]
         ELSE DownloadFrom([files EXCEPT ![f] = "complete"], force, net, i + 1)

download_checkpoints(files, force, net) == DownloadFrom(files, force, net, 1)

critical_files == {"1st_model.onnx", "2nd_model.onnx"}

(* ensure_checkpoints: nothing to do when every critical file exists *)
ensure_checkpoints(files, net) ==
    IF \A f \in critical_files : files[f] /= "absent"
    THEN [files |-> files, raised |-> FALSE]
    ELSE download_checkpoints(files, FALSE, net)

CkptInit == RunIdle /\ NamingIdle /\ UiIdle /\ CkptIdle

(* a call of ensure_checkpoints(), as PDF2MusePipeline.run makes it *)
EnsureCheckpoints ==
    /\ calls < MaxCalls
    /\ \E net \in [CheckpointNames -> Fetches] :
         LET r == ensure_checkpoints(ckpt, net) IN
         /\ ckpt' = r.files
         /\ ckpt_ret' = IF r.raised THEN "ensure raised" ELSE "ensure returned"
    /\ calls' = calls + 1
    /\ UNCHANGED <<run_vars, naming_vars, ui_vars>>

(* the download-models command without --force *)
DownloadModels ==
    /\ calls < MaxCalls
    /\ \E net \in [CheckpointNames -> Fetches] :
         LET r == download_checkpoints(ckpt, FALSE, net) IN
         /\ ckpt' = r.files
         /\ ckpt_ret' = IF r.raised THEN "download raised" ELSE "download returned"
    /\ calls' = calls + 1
    /\ UNCHANGED <<run_vars, naming_vars, ui_vars>>

CkptNext == EnsureCheckpoints \/ DownloadModels

CkptSpec == CkptInit /\ [][CkptNext]_vars

(* ===================== properties of the library calls ================= *)
InputFiles == {p \in Pages : musicxml_dir[p].exists}

AllParse == \A p \in InputFiles : musicxml_dir[p].ok

SamePartList ==
    \A p, q \in InputFiles : musicxml_dir[p].partlist = musicxml_dir[q].partlist

FirstPage == CHOOSE p \in InputFiles : \A q \in InputFiles : p <= q

(* the measures of the k-th part body of pages p, p+1, ... in page order *)
RECURSIVE MeasuresFrom(_, _, _)
MeasuresFrom(dir, k, p) ==
    IF p > MaxPages - 1 THEN <<>>
    ELSE (IF dir[p].ok /\ k <= Len(dir[p].parts)
          THEN dir[p].parts[k].measures ELSE <<>>)
         \o MeasuresFrom(dir, k, p + 1)

(* one part declaration per part body, in corresponding order *)
WellFormed(d) ==
    /\ d.exists /\ d.ok
    /\ Len(d.partlist) = 1
    /\ Len(d.partlist[1]) = Len(d.parts)
    /\ \A k \in 1 .. Len(d.parts) : d.partlist[1][k] = d.parts[k].id

JoinDone == pc \in {"JoinReturned", "ConvertReturned", "ConvertRaised"}

(* C1: joining N >= 1 parseable page documents that declare the same       *)
(* part-list writes one document whose part-list is the first document's    *)
(* and whose k-th part holds exactly the k-th parts' measures of all the    *)
(* inputs, concatenated in page order (unless the output cannot be opened). *)
C1_JoinConcatenatesInPageOrder ==
    (pc /= "CallJoin" /\ InputFiles /= {} /\ AllParse /\ SamePartList) =>
        /\ pc = "JoinRaised" => err = "OSError"
        /\ JoinDone =>
             /\ out_xml.exists /\ out_xml.ok
             /\ out_xml.partlist = musicxml_dir[FirstPage].partlist
             /\ Len(out_xml.parts) = Len(musicxml_dir[FirstPage].parts)
             /\ \A k \in 1 .. Len(out_xml.parts) :
                  out_xml.parts[k].measures = MeasuresFrom(musicxml_dir, k, 0)

C1_Witness ==
    /\ pc = "JoinReturned"
    /\ Cardinality(InputFiles) >= 3
    /\ AllParse /\ SamePartList
    /\ Len(out_xml.parts) >= 2
    /\ Len(out_xml.parts[2].measures) >= 4

ExactlyOneMalformed ==
    /\ Cardinality(InputFiles) >= 2
    /\ Cardinality({p \in InputFiles : ~musicxml_dir[p].ok}) = 1

ValidOnly(dir) == [p \in Pages |-> IF dir[p].ok THEN dir[p] ELSE NoFile]

(* C2: with exactly one malformed document among M >= 2, at any position    *)
(* of the sorted order, the join succeeds and writes what joining the M-1   *)
(* valid documents alone writes.                                            *)
C2_OneMalformedAnywhereIsSkipped ==
    (pc /= "CallJoin" /\ ExactlyOneMalformed) =>
        /\ pc = "JoinRaised" => err = "OSError"
        /\ JoinDone =>
             out_xml = join_musicxml_files(ValidOnly(musicxml_dir), NoFile, TRUE).out

(* C3: with no usable input (no file at all, or only files that do not      *)
(* parse) the join never returns normally: the caller observes an error.    *)
C3_NoUsableInputRaises ==
    (pc /= "CallJoin" /\ \A p \in InputFiles : ~musicxml_dir[p].ok) =>
        pc = "JoinRaised"

(* C4: after joining valid pages, whatever their part counts, the merged    *)
(* document has exactly one part declaration per part body, in order.       *)
C4_JoinKeepsOneDeclarationPerPart ==
    (JoinDone /\ InputFiles /= {}
       /\ \A p \in InputFiles : WellFormed(musicxml_dir[p])) =>
        WellFormed(out_xml)

(* C5: the projection holds the part-list and every part body of the merged *)
(* document, unchanged and in order, under museScore/Score with the one     *)
(* provenance metaTag added.                                                *)
C5_ProjectionPreservesParts ==
    pc = "ConvertReturned" =>
        /\ out_mscx.exists
        /\ out_mscx.root = "museScore"
        /\ out_mscx.metaTags = << [name |-> "source", text |-> "PDF2Muse"] >>
        /\ out_mscx.partlist = out_xml.partlist
        /\ out_mscx.parts = out_xml.parts

C5_Witness ==
    /\ pc = "ConvertReturned"
    /\ out_xml.partlist /= <<>>
    /\ Len(out_xml.parts) >= 2
    /\ Len(out_xml.parts[1].measures) >= 3

(* C6: the projection of a merged document that has no part-list, or whose  *)
(* part bodies do not match its declarations, fails and writes nothing.     *)
C6_ProjectionRejectsMalformedInput ==
    (pc \in {"ConvertReturned", "ConvertRaised"} /\ ~WellFormed(out_xml)) =>
        pc = "ConvertRaised" /\ ~out_mscx.exists

(* ========================= properties of the run ======================= *)
Processed == {png_files[i] : i \in 1 .. page}

Recorded == {musicxml_files[i] : i \in 1 .. Len(musicxml_files)}

TranscriptionFailed(p) == oemer[p] \in {"fail", "nodoc"}

(* C7: while the run goes on, a page whose transcription failed (non-zero   *)
(* exit, exception, or no document produced) is not recorded as produced    *)
(* and has no file in the directory the merge reads; the run fails in       *)
(* Transcribing exactly when every page failed.                             *)
C7_FailedPagesAreExcluded ==
    /\ pc \in {"Transcribing", "Merging", "Projecting"} =>
          \A p \in Processed :
              TranscriptionFailed(p) =>
                  p \notin Recorded /\ ~musicxml_dir[p].exists
    /\ failed_in = "Transcribing" =>
          \A i \in 1 .. Len(png_files) : TranscriptionFailed(png_files[i])
    /\ pc \in {"Merging", "Projecting", "Done"} =>
          \E i \in 1 .. Len(png_files) : ~TranscriptionFailed(png_files[i])

(* C8: once rendering has returned zero pages the run is Failed, the        *)
(* failure was raised in Rendering, and its error is not the one raised     *)
(* when every page failed transcription.                                    *)
C8_ZeroPagesFailInRendering ==
    (rendered /\ png_files = <<>>) =>
        /\ pc = "Failed"
        /\ failed_in = "Rendering"
        /\ err /= "RuntimeError: No MusicXML files were generated"

(* C9: the temporary workspace exists from Rendering to Projecting and is   *)
(* gone, with every page image and page document, once the run is Done or   *)
(* Failed.                                                                  *)
C9_WorkspaceScopedToRun ==
    /\ pc \in {"Rendering", "Transcribing", "Merging", "Projecting"} => workspace
    /\ pc \in {"Done", "Failed"} =>
          ~workspace /\ image_dir = {} /\ musicxml_dir = EmptyDir

C9_Witness ==
    /\ pc = "Failed"
    /\ failed_in = "Projecting"
    /\ Len(musicxml_files) >= 2
    /\ ~workspace

(* C10: a run that ended in Failed has left neither combined.musicxml nor   *)
(* combined.mscx in the output directory.                                   *)
C10_NoOutputOnFailure ==
    pc = "Failed" => ~out_xml.exists /\ ~out_mscx.exists

(* What the run reports about its pages: "Processing N pages with oemer"    *)
(* and "Processed M pages successfully"; the pages it reports as not        *)
(* processed are N - M.                                                     *)
ReportedExcluded == Len(png_files) - Len(musicxml_files)

(* the pages of the run that failed transcription *)
FailedPages ==
    {p \in {png_files[i] : i \in 1 .. Len(png_files)} : TranscriptionFailed(p)}

(* C11: when the run is Done both combined.musicxml and combined.mscx have  *)
(* been written by it, and the number of excluded pages it reports counts   *)
(* the pages that failed transcription and the pages dropped at the merge   *)
(* as unparseable.                                                          *)
C11_DoneReportsExcludedPages ==
    pc = "Done" =>
        /\ out_xml.exists /\ out_mscx.exists
        /\ ReportedExcluded = Cardinality(FailedPages) + Cardinality(skipped)

(* C13: after the transcribing loop, whatever order the directory listings  *)
(* returned, every page the transcriber wrote a document for has that       *)
(* document under its own name, no other page has a file, and the files the *)
(* join reads are the documents the run recorded.                           *)
C13_EachPageKeepsItsOwnDocument ==
    pc = "Merging" =>
        /\ \A p \in Pages : musicxml_dir[p] = transcribed[p]
        /\ InputFiles = Recorded

(* C12: however many pages are rendered, each page's name sorts after the   *)
(* names of all the pages before it, so that sorting the names restores     *)
(* ascending page order.                                                    *)
C12_NameOrderIsPageOrder ==
    \A i \in 1 .. Len(png_names) - 1 :
        LexLess(png_names[i], png_names[Len(png_names)])

(* C14: with invocations of convert_pdf overlapping, the file an invocation *)
(* returns on success holds the projected score of its own input.           *)
C14_ReturnedFileIsOwnScore ==
    \A w \in Invocations :
        inv[w].pc = "returned" => inv[w].returned = OwnScore(w)

(* C15: whenever ensure_checkpoints has returned normally, after whatever   *)
(* earlier calls and failed fetches, every critical checkpoint file is      *)
(* there as a complete download.                                            *)
C15_EnsureLeavesCompleteCheckpoints ==
    ckpt_ret = "ensure returned" =>
        \A f \in critical_files : ckpt[f] = "complete"

====
